---- MODULE Spec2Model ----
(***************************************************************************)
(* expression/heterosis.py: `prepare` parses HT-seq .count files into      *)
(* RiceSample records, merges the records of one sample sequenced in       *)
(* several batches, and writes one count matrix and one .groups file per   *)
(* hybrid family.                                                          *)
(*                                                                         *)
(* Python strings that the code indexes, splits or compares are sequences  *)
(* of one-character strings; numpy int32 arrays are sequences of integers  *)
(* in -2^31 .. 2^31-1 with wrapping addition.                              *)
(***************************************************************************)
EXTENDS Integers, Sequences, FiniteSets, TLC

VARIABLES countfiles, todo, countsdb, pc, cur, i, j, items, written, groupsfiles, err, run, prevout

vars == <<countfiles, todo, countsdb, pc, cur, i, j, items, written, groupsfiles, err, run, prevout>>

(***************************************************************************)
(* Bounds of the model.                                                    *)
(***************************************************************************)
MaxFiles == 3

MaxRuns == 2

(***************************************************************************)
(* Strings.                                                                *)
(***************************************************************************)
\* The characters of the modelled file names, in ASCII order.
Alphabet == <<"-", ".", "/", "1", "2", "4", "6", "8", "9", "C", "F", "L", "R", "S",
              "_", "a", "b", "c", "d", "n", "o", "t", "u", "x">>

Ord(c) == CHOOSE k \in 1..Len(Alphabet) : Alphabet[k] = c

RECURSIVE StrLess(_, _)
\* Python's < on two strings: lexicographic, a proper prefix is smaller.
StrLess(a, b) ==
    IF b = <<>> THEN FALSE
    ELSE IF a = <<>> THEN TRUE
    ELSE IF Head(a) # Head(b) THEN Ord(Head(a)) < Ord(Head(b))
    ELSE StrLess(Tail(a), Tail(b))

RECURSIVE Split(_, _)
\* s.split(sep) for a one-character separator.
Split(s, sep) ==
    IF \A k \in 1..Len(s) : s[k] # sep THEN <<s>>
    ELSE LET p == CHOOSE k \in 1..Len(s) : s[k] = sep /\ \A m \in 1..(k - 1) : s[m] # sep
         IN  <<SubSeq(s, 1, p - 1)>> \o Split(SubSeq(s, p + 1, Len(s)), sep)

\* op.basename(path): what follows the last "/".
basename(path) == LET parts == Split(path, "/") IN parts[Len(parts)]

Digits == <<"0", "1", "2", "3", "4", "5", "6", "7", "8", "9">>

IsDigit(c) == \E k \in 1..10 : Digits[k] = c

DigitValue(c) == (CHOOSE k \in 1..10 : Digits[k] = c) - 1

RECURSIVE IntValue(_, _)
IntValue(s, acc) == IF s = <<>> THEN acc ELSE IntValue(Tail(s), 10 * acc + DigitValue(Head(s)))

\* int(s) of a string of the file name: a value, or ValueError.
int(s) ==
    IF s # <<>> /\ \A k \in 1..Len(s) : IsDigit(s[k])
    THEN [ok |-> TRUE, value |-> IntValue(s, 0)]
    ELSE [ok |-> FALSE, value |-> 0]

(***************************************************************************)
(* RiceSample                                                              *)
(***************************************************************************)
CS48 == <<"C", "S", "4", "8">>

CS66 == <<"C", "S", "6", "6">>

na == <<"n", "a">>

\* self.family is the string "Recur" or an int.
Recur == [recur |-> TRUE, id |-> 0]

Family(n) == [recur |-> FALSE, id |-> n]

\* Classify with the F/C test ahead of the CS48/CS66 test.
ClassifyHybridFirst(ind) ==
    IF ind = <<>>
    THEN [ok |-> FALSE, label |-> "", family |-> Recur, P1 |-> na, P2 |-> na]
    ELSE IF ind[1] \in {"F", "C"}
    THEN [ok |-> int(Tail(ind)).ok, label |-> "F1", family |-> Family(int(Tail(ind)).value),
          P1 |-> IF ind[1] = "F" THEN CS48 ELSE CS66, P2 |-> Tail(ind)]
    ELSE IF ind \in {CS48, CS66}
    THEN [ok |-> TRUE, label |-> "P1", family |-> Recur, P1 |-> na, P2 |-> na]
    ELSE [ok |-> int(ind).ok, label |-> "P2", family |-> Family(int(ind).value),
          P1 |-> na, P2 |-> na]

\* Lines 40-51: the classification of the individual code.
Classify(ind) ==
    IF ind \in {CS48, CS66}
    THEN [ok |-> TRUE, label |-> "P1", family |-> Recur, P1 |-> na, P2 |-> na]
    ELSE IF ind = <<>>
    THEN [ok |-> FALSE, label |-> "", family |-> Recur, P1 |-> na, P2 |-> na]
    ELSE IF ind[1] \in {"F", "C"}
    THEN [ok |-> int(Tail(ind)).ok, label |-> "F1", family |-> Family(int(Tail(ind)).value),
          P1 |-> IF ind[1] = "F" THEN CS48 ELSE CS66, P2 |-> Tail(ind)]
    ELSE [ok |-> int(ind).ok, label |-> "P2", family |-> Family(int(ind).value),
          P1 |-> na, P2 |-> na]

\* A field of a row of a count file: a gene id, an integer literal, or other text.
Tok(s) == [int |-> FALSE, s |-> s, n |-> 0]

Num(n) == [int |-> TRUE, s |-> "", n |-> n]

Min(S) == CHOOSE x \in S : \A y \in S : x <= y

\* zip(*data): as many tuples as the shortest row has fields.
zip(data) ==
    IF data = <<>> THEN <<>>
    ELSE [c \in 1..Min({Len(data[r]) : r \in 1..Len(data)}) |->
            [r \in 1..Len(data) |-> data[r][c]]]

NoSample == [filename |-> <<>>, shortname |-> <<>>, tissue |-> "", ind |-> <<>>, rep |-> <<>>,
             P1 |-> na, P2 |-> na, label |-> "", family |-> Recur,
             header |-> <<>>, data |-> <<>>, working |-> FALSE]

\* RiceSample.__init__ on the file c = [path, rows]: the record, or the
\* exception that leaves __init__.
RiceSample(c) ==
    LET shortname == Split(basename(c.path), "_")[1]
        parts     == Split(shortname, "-")
        name      == parts[1]
        cls       == Classify(Tail(name))
        cols      == zip(c.rows)
    IN  IF Len(parts) # 2 \/ name = <<>>
        THEN [ok |-> FALSE, error |-> "name", rs |-> NoSample]
        ELSE IF ~cls.ok
        THEN [ok |-> FALSE, error |-> "family", rs |-> NoSample]
        ELSE IF Len(cols) # 2 \/ \E r \in 1..Len(c.rows) : ~cols[2][r].int
        THEN [ok |-> FALSE, error |-> "count", rs |-> NoSample]
        ELSE [ok |-> TRUE, error |-> "",
              rs |-> [filename |-> <<c.path>>, shortname |-> shortname,
                      tissue |-> name[1], ind |-> Tail(name), rep |-> parts[2],
                      P1 |-> cls.P1, P2 |-> cls.P2, label |-> cls.label, family |-> cls.family,
                      header |-> cols[1],
                      data |-> [r \in 1..Len(c.rows) |-> cols[2][r].n],
                      working |-> TRUE]]

MaxInt32 == 2147483647

MinInt32 == -MaxInt32 - 1

\* numpy int32 +: the sum modulo 2^32, computed on 16-bit limbs.
add32(a, b) ==
    LET lo == (a % 65536) + (b % 65536)
        hi == (a \div 65536) + (b \div 65536) + (lo \div 65536)
    IN  (((hi + 32768) % 65536) - 32768) * 65536 + (lo % 65536)

\* MergeAsserts without the assertion on the header.
MergeAssertsNoHeader(self, rs) ==
    /\ self.tissue = rs.tissue
    /\ self.ind = rs.ind
    /\ self.rep = rs.rep
    /\ self.label = rs.label
    /\ self.family = rs.family
    /\ self.P1 = rs.P1
    /\ self.P2 = rs.P2

\* Lines 67-74: the assertions of merge.
MergeAsserts(self, rs) ==
    /\ self.tissue = rs.tissue
    /\ self.ind = rs.ind
    /\ self.rep = rs.rep
    /\ self.label = rs.label
    /\ self.family = rs.family
    /\ self.P1 = rs.P1
    /\ self.P2 = rs.P2
    /\ self.header = rs.header

\* RiceSample.merge: self after the call, and whether it returned (ok) or
\* raised AssertionError. The file name is joined before the assertions.
merge(self, rs) ==
    LET named == [self EXCEPT !.filename = self.filename \o rs.filename]
    IN  IF MergeAsserts(self, rs)
        THEN [ok |-> TRUE,
              self |-> [named EXCEPT !.data = [g \in 1..Len(self.data) |-> add32(self.data[g], rs.data[g])]]]
        ELSE [ok |-> FALSE, self |-> named]

(***************************************************************************)
(* prepare                                                                 *)
(***************************************************************************)
Labels == <<"F1", "P1", "P2">>

LabelOrd(l) == CHOOSE k \in 1..Len(Labels) : Labels[k] = l

\* Line 118: key = lambda x: (x.label, x.rep)
key(x) == <<x.label, x.rep>>

\* Python's < on two such keys.
KeyLess(a, b) ==
    \/ LabelOrd(a[1]) < LabelOrd(b[1])
    \/ a[1] = b[1] /\ StrLess(a[2], b[2])

RECURSIVE Insert(_, _)
Insert(sorted, x) ==
    IF sorted = <<>> THEN <<x>>
    ELSE LET last == sorted[Len(sorted)]
         IN  IF KeyLess(key(x), key(last))
             THEN Insert(SubSeq(sorted, 1, Len(sorted) - 1), x) \o <<last>>
             ELSE sorted \o <<x>>

RECURSIVE SortFrom(_, _)
SortFrom(done, rest) ==
    IF rest = <<>> THEN done ELSE SortFrom(Insert(done, Head(rest)), Tail(rest))

\* sort that leaves the list in the order of the glob.
sortSkipped(rs) == rs

\* rs.sort(key=key): stable, ascending.
sort(rs) == SortFrom(<<>>, rs)

\* Python's < on two (tissue, ind) keys of countsdb.
DbKeyLess(a, b) ==
    \/ Ord(a[1]) < Ord(b[1])
    \/ a[1] = b[1] /\ StrLess(a[2], b[2])

RECURSIVE SortedKeys(_)
\* The keys of sorted(countsdb.items()).
SortedKeys(K) ==
    IF K = {} THEN <<>>
    ELSE LET m == CHOOSE x \in K : \A y \in K \ {x} : DbKeyLess(x, y)
         IN  <<m>> \o SortedKeys(K \ {m})

\* countsdb[k] of a defaultdict(list).
Lookup(db, k) == IF k \in DOMAIN db THEN db[k] ELSE <<>>

Put(db, k, v) == [x \in DOMAIN db \cup {k} |-> IF x = k THEN v ELSE db[x]]

\* Line 132: [x for x in rs if x.working]
Working(rs) == SelectSeq(rs, LAMBDA x : x.working)

Gene == <<"G", "e", "n", "e">>

\* merge_counts(ss, outfile): the header line and the rows written.
merge_counts(ss) ==
    [header |-> <<Gene>> \o [k \in 1..Len(ss) |-> ss[k].shortname],
     rows   |-> zip(<<ss[1].header>> \o [k \in 1..Len(ss) |-> ss[k].data])]

\* Groups with the lengths of P2 and r exchanged.
GroupsLengthsSwapped(P1, P2, r) ==
    [k \in 1..Len(P1) |-> 1] \o [k \in 1..Len(r) |-> 2] \o [k \in 1..Len(P2) |-> 3]

\* Line 143: the labels of the columns.
Groups(P1, P2, r) ==
    [k \in 1..Len(P1) |-> 1] \o [k \in 1..Len(P2) |-> 2] \o [k \in 1..Len(r) |-> 3]

\* Line 146: "-".join((tissue, ind))
Outfile(tissue, ind) == <<tissue, "-">> \o ind

DotGroups == <<".", "g", "r", "o", "u", "p", "s">>

(***************************************************************************)
(* The count files a run may find in the count folder.                     *)
(***************************************************************************)
Path(token, batch) == <<"d", "/">> \o token \o <<"_", batch, ".", "c", "o", "u", "n", "t">>

g12 == <<Tok("g1"), Tok("g2")>>

g21 == <<Tok("g2"), Tok("g1")>>

\* The rows of a well-formed count file: gene id, count.
Rows(genes, counts) == [r \in 1..Len(genes) |-> <<genes[r], Num(counts[r])>>]

CountFile(token, batch, rows) == [path |-> Path(token, batch), rows |-> rows]

Universe ==
    { CountFile(<<"L", "C", "S", "4", "8", "-", "1">>, "a", Rows(g12, <<1, 2>>)),
      CountFile(<<"L", "C", "S", "4", "8", "-", "2">>, "a", Rows(<<Tok("g1")>>, <<3>>)),
      CountFile(<<"L", "1", "8", "-", "1">>, "a", Rows(g12, <<3, 4>>)),
      CountFile(<<"L", "1", "8", "-", "2">>, "a", Rows(g21, <<9, 9>>)),
      CountFile(<<"L", "F", "1", "8", "-", "1">>, "a", Rows(g12, <<5, 6>>)),
      CountFile(<<"L", "F", "1", "8", "-", "1">>, "b", Rows(g12, <<MaxInt32, -7>>)),
      CountFile(<<"L", "F", "1", "8", "-", "1">>, "c", Rows(g12, <<1, MinInt32>>)),
      CountFile(<<"L", "F", "1", "8", "-", "1">>, "d", Rows(g21, <<1, 1>>)),
      CountFile(<<"L", "F", "1", "8", "-", "2">>, "a", Rows(g12, <<7, 8>>)),
      CountFile(<<"L", "C", "1", "8", "-", "1">>, "a", Rows(g12, <<2, 2>>)),
      CountFile(<<"R", "F", "1", "8", "-", "1">>, "a", Rows(g12, <<4, 4>>)),
      CountFile(<<"L", "F", "1", "8">>, "a", Rows(g12, <<1, 1>>)),
      CountFile(<<"L", "F", "x", "-", "1">>, "a", Rows(g12, <<1, 1>>)),
      CountFile(<<"L", "1", "9", "-", "1">>, "a", <<<<Tok("g1"), Num(1)>>, <<Tok("g2"), Tok("x")>>>>) }

NoOutput == [pc |-> "", written |-> <<>>, groupsfiles |-> <<>>]

Init ==
    /\ countfiles \in {S \in SUBSET Universe : Cardinality(S) <= MaxFiles}
    /\ todo = countfiles
    /\ countsdb = <<>>
    /\ pc = "parse"
    /\ cur = <<>>
    /\ i = 0
    /\ j = 0
    /\ items = <<>>
    /\ written = <<>>
    /\ groupsfiles = <<>>
    /\ err = ""
    /\ run = 1
    /\ prevout = NoOutput

\* Lines 113-115: the next file of the glob, in whatever order it lists them.
Parse ==
    /\ pc = "parse"
    /\ \E c \in todo :
          LET new == RiceSample(c)
              k   == <<new.rs.tissue, new.rs.ind>>
          IN  /\ todo' = todo \ {c}
              /\ IF new.ok
                 THEN /\ countsdb' = Put(countsdb, k, Append(Lookup(countsdb, k), new.rs))
                      /\ UNCHANGED <<pc, err>>
                 ELSE /\ pc' = "abort"
                      /\ err' = new.error
                      /\ UNCHANGED countsdb
    /\ UNCHANGED <<countfiles, cur, i, j, items, written, groupsfiles, run, prevout>>

\* Line 119: sorted(countsdb.items()), once every file is parsed.
StartMerge ==
    /\ pc = "parse"
    /\ todo = {}
    /\ pc' = "merge"
    /\ items' = SortedKeys(DOMAIN countsdb)
    /\ UNCHANGED <<countfiles, todo, countsdb, cur, i, j, written, groupsfiles, err, run, prevout>>

\* Lines 119-122: the next (tissue, ind) list is sorted in place.
NextList ==
    /\ pc = "merge"
    /\ items # <<>>
    /\ cur' = Head(items)
    /\ items' = Tail(items)
    /\ countsdb' = [countsdb EXCEPT ![Head(items)] = sort(@)]
    /\ i' = 1
    /\ pc' = "for_i"
    /\ UNCHANGED <<countfiles, todo, j, written, groupsfiles, err, run, prevout>>

\* Lines 122-126 and 132: one pass of `for i` (i and j count from 1 here).
ForI ==
    /\ pc = "for_i"
    /\ LET rs == countsdb[cur]
       IN  IF i > Len(rs)
           THEN /\ countsdb' = [countsdb EXCEPT ![cur] = Working(rs)]
                /\ pc' = "merge"
                /\ UNCHANGED <<i, j>>
           ELSE IF ~rs[i].working
           THEN /\ i' = i + 1
                /\ UNCHANGED <<countsdb, pc, j>>
           ELSE /\ j' = i + 1
                /\ pc' = "for_j"
                /\ UNCHANGED <<countsdb, i>>
    /\ UNCHANGED <<countfiles, todo, cur, items, written, groupsfiles, err, run, prevout>>

\* Absorb without line 131.
AbsorbStillWorking(rs, a, b) ==
    [rs EXCEPT ![a] = merge(rs[a], rs[b]).self]

\* rs after lines 130-131 went through for ri = rs[a] and rj = rs[b].
Absorb(rs, a, b) ==
    [rs EXCEPT ![a] = merge(rs[a], rs[b]).self, ![b].working = FALSE]

\* Lines 126-131: one pass of `for j`.
ForJ ==
    /\ pc = "for_j"
    /\ LET rs == countsdb[cur]
       IN  IF j > Len(rs)
           THEN /\ i' = i + 1
                /\ pc' = "for_i"
                /\ UNCHANGED <<countsdb, j, err>>
           ELSE IF key(rs[i]) # key(rs[j])
           THEN /\ j' = j + 1
                /\ UNCHANGED <<countsdb, pc, i, err>>
           ELSE IF merge(rs[i], rs[j]).ok
           THEN /\ countsdb' = [countsdb EXCEPT ![cur] = Absorb(rs, i, j)]
                /\ j' = j + 1
                /\ UNCHANGED <<pc, i, err>>
           ELSE /\ countsdb' = [countsdb EXCEPT ![cur][i] = merge(rs[i], rs[j]).self]
                /\ pc' = "abort"
                /\ err' = "assert"
                /\ UNCHANGED <<i, j>>
    /\ UNCHANGED <<countfiles, todo, cur, items, written, groupsfiles, run, prevout>>

\* Line 136: sorted(countsdb.items()) of the merged lists.
StartGroup ==
    /\ pc = "merge"
    /\ items = <<>>
    /\ pc' = "group"
    /\ items' = SortedKeys(DOMAIN countsdb)
    /\ UNCHANGED <<countfiles, todo, countsdb, cur, i, j, written, groupsfiles, err, run, prevout>>

\* Lines 136-151: one (tissue, ind) list of the family loop.
Group ==
    /\ pc = "group"
    /\ items # <<>>
    /\ LET tissue == Head(items)[1]
           ind    == Head(items)[2]
           r      == countsdb[Head(items)]
           k1     == <<tissue, r[1].P1>>
           k2     == <<tissue, r[1].P2>>
           P1     == Lookup(countsdb, k1)
           P2     == Lookup(countsdb, k2)
           db1    == Put(countsdb, k1, P1)
       IN  IF r[1].label # "F1"
           THEN UNCHANGED <<countsdb, written, groupsfiles>>
           ELSE /\ countsdb' = Put(db1, k2, Lookup(db1, k2))
                /\ written' = Put(written, Outfile(tissue, ind), merge_counts(P1 \o P2 \o r))
                /\ groupsfiles' = Put(groupsfiles, Outfile(tissue, ind) \o DotGroups, Groups(P1, P2, r))
    /\ cur' = Head(items)
    /\ items' = Tail(items)
    /\ UNCHANGED <<countfiles, todo, pc, i, j, err, run, prevout>>

\* Line 136: the family loop is over, prepare returns.
Return ==
    /\ pc = "group"
    /\ items = <<>>
    /\ pc' = "done"
    /\ UNCHANGED <<countfiles, todo, countsdb, cur, i, j, items, written, groupsfiles, err, run, prevout>>

\* prepare is run again on the same count folder. written and groupsfiles
\* hold what the current run has written, prevout what the run before it did.
Rerun ==
    /\ pc \in {"done", "abort"}
    /\ run < MaxRuns
    /\ run' = run + 1
    /\ prevout' = [pc |-> pc, written |-> written, groupsfiles |-> groupsfiles]
    /\ todo' = countfiles
    /\ countsdb' = <<>>
    /\ pc' = "parse"
    /\ cur' = <<>>
    /\ i' = 0
    /\ j' = 0
    /\ items' = <<>>
    /\ written' = <<>>
    /\ groupsfiles' = <<>>
    /\ err' = ""
    /\ UNCHANGED countfiles

Next ==
    \/ Parse
    \/ StartMerge
    \/ NextList
    \/ ForI
    \/ ForJ
    \/ StartGroup
    \/ Group
    \/ Return
    \/ Rerun

Spec == Init /\ [][Next]_vars

(***************************************************************************)
(* Properties                                                              *)
(***************************************************************************)
\* Every record held by countsdb, with its place.
Records == UNION {{countsdb[k][n] : n \in 1..Len(countsdb[k])} : k \in DOMAIN countsdb}

\* The prepare run is past the merge stage (lines 117-132).
Merged == pc \in {"group", "done"} \/ (pc = "merge" /\ items = <<>>)

\* The sample token of a count file and its parts, read off the path.
TokenOf(c) == Split(basename(c.path), "_")[1]

WellNamed(c) == Len(Split(TokenOf(c), "-")) = 2 /\ Split(TokenOf(c), "-")[1] # <<>>

IndOf(c) == Tail(Split(TokenOf(c), "-")[1])

Numeric(s) == s # <<>> /\ \A k \in 1..Len(s) : s[k] \in {"0", "1", "2", "3", "4", "5", "6", "7", "8", "9"}

RECURSIVE Pow10(_)
Pow10(n) == IF n = 0 THEN 1 ELSE 10 * Pow10(n - 1)

RECURSIVE Decimal(_)
\* The number a string of digits writes: the sum of digit * 10^position.
Decimal(s) ==
    IF s = <<>> THEN 0
    ELSE (CHOOSE d \in 0..9 : Digits[d + 1] = Head(s)) * Pow10(Len(s) - 1) + Decimal(Tail(s))

\* The code of a file has the numeric part the classification needs.
CodeOk(ind) ==
    \/ ind \in {CS48, CS66}
    \/ ind # <<>> /\ ind[1] \in {"F", "C"} /\ Numeric(Tail(ind))
    \/ ind # <<>> /\ ind[1] \notin {"F", "C"} /\ Numeric(ind)

\* The rows of a file are what __init__ reads without an exception.
RowsOk(c) ==
    /\ c.rows # <<>>
    /\ \A r \in 1..Len(c.rows) : Len(c.rows[r]) >= 2 /\ c.rows[r][2].int
    /\ \E r \in 1..Len(c.rows) : Len(c.rows[r]) = 2

\* C7: first match wins. CS48 and CS66 are Parent1 of family "Recur" with both
\* parent codes unset; otherwise a code starting with F or C is a Hybrid with
\* parent1 CS48 (F) or CS66 (C), parent2 the remainder and family the integer
\* the remainder writes; otherwise the record is Parent2 with family the
\* integer the code writes. A non-numeric remainder or code is an error and
\* no record is produced.
C7_Classification ==
    /\ \A x \in Records :
          IF x.ind \in {CS48, CS66}
          THEN x.label = "P1" /\ x.family.recur /\ x.P1 = na /\ x.P2 = na
          ELSE IF x.ind[1] \in {"F", "C"}
          THEN /\ x.label = "F1"
               /\ x.P1 = (IF x.ind[1] = "F" THEN CS48 ELSE CS66)
               /\ x.P2 = Tail(x.ind)
               /\ Numeric(x.P2)
               /\ ~x.family.recur /\ x.family.id = Decimal(x.P2)
          ELSE /\ x.label = "P2"
               /\ Numeric(x.ind)
               /\ ~x.family.recur /\ x.family.id = Decimal(x.ind)
    /\ \A c \in countfiles \ todo :
          WellNamed(c) =>
             IF CodeOk(IndOf(c))
             THEN RowsOk(c) => \E x \in Records : \E n \in 1..Len(x.filename) : x.filename[n] = c.path
             ELSE /\ pc = "abort" /\ err = "family"
                  /\ \A x \in Records : \A n \in 1..Len(x.filename) : x.filename[n] # c.path

\* A run that classified a recurrent parent, a C hybrid and a second parent.
C7_Witness ==
    /\ \E x \in Records : x.ind = CS48 /\ x.label = "P1"
    /\ \E x \in Records : x.label = "F1" /\ x.P1 = CS66 /\ x.family.id = 18
    /\ \E x \in Records : x.label = "P2" /\ x.family.id = 18

\* (tissue, individual, replicate, role) of a record.
Identity(x) == <<x.tissue, x.ind, x.rep, x.label>>

\* The identities of the files of the count folder.
InputIdentities == {Identity(RiceSample(c).rs) : c \in {c \in countfiles : RiceSample(c).ok}}

\* The places of countsdb that hold a record of identity t.
Places(t) ==
    UNION {{<<k, n>> : n \in {m \in 1..Len(countsdb[k]) : Identity(countsdb[k][m]) = t}} :
             k \in DOMAIN countsdb}

\* C2: after the merge stage, exactly one working record remains for each
\* (tissue, individual, replicate, role) of the input; records that differ in
\* replicate are not merged.
C2_OneActivePerIdentity ==
    Merged =>
       /\ \A t \in InputIdentities : Cardinality(Places(t)) = 1
       /\ \A x \in Records : x.working /\ Identity(x) \in InputIdentities

\* Two batches of LF18-1 were collapsed and LF18-2 stays beside them.
C2_Witness ==
    /\ Merged
    /\ \E x \in Records : Len(x.filename) = 2
    /\ \E x, y \in Records : x.tissue = y.tissue /\ x.ind = y.ind /\ x.rep # y.rep

\* The (tissue, ind) lists of hybrids that the family loop visits.
HybridKeys == {k \in DOMAIN countsdb : countsdb[k] # <<>> /\ countsdb[k][1].label = "F1"}

RoleOfLabel == <<"P1", "P2", "F1">>

\* C4: the matrix of a family has as many sample columns as its .groups line
\* has labels, the labels are non-decreasing over {1,2,3}, and the column
\* labelled 1, 2 or 3 is a Parent1, Parent2 or Hybrid record of the tissue.
C4_GroupLabels ==
    \A k \in HybridKeys :
       LET f == Outfile(k[1], k[2])
       IN  f \in DOMAIN written =>
              /\ f \o DotGroups \in DOMAIN groupsfiles
              /\ LET labels  == groupsfiles[f \o DotGroups]
                     columns == Tail(written[f].header)
                 IN  /\ Len(columns) = Len(labels)
                     /\ \A n \in 1..Len(labels) : labels[n] \in {1, 2, 3}
                     /\ \A n \in 1..(Len(labels) - 1) : labels[n] <= labels[n + 1]
                     /\ \A n \in 1..Len(labels) :
                           \E x \in Records :
                              /\ x.shortname = columns[n]
                              /\ x.tissue = k[1]
                              /\ x.label = RoleOfLabel[labels[n]]

\* A family written with one column of each role.
C4_Witness ==
    /\ pc = "done"
    /\ \E f \in DOMAIN groupsfiles : groupsfiles[f] = <<1, 2, 3>>

\* C8: a second run over the same count files, listed in any order, ends as
\* the first did and writes the same files with the same content.
C8_SameOutput ==
    (run > 1 /\ pc \in {"done", "abort"}) =>
       /\ pc = prevout.pc
       /\ written = prevout.written
       /\ groupsfiles = prevout.groupsfiles

\* A second run that merged two batches and wrote a matrix of several columns.
C8_Witness ==
    /\ run > 1
    /\ pc = "done"
    /\ \E x \in Records : Len(x.filename) = 2
    /\ \E f \in DOMAIN written : Len(written[f].header) >= 3

IdentityFields == {"tissue", "ind", "rep", "label", "family", "P1", "P2", "header"}

\* C9: when the two records of a merge disagree on gene ids or on an identity
\* field, the merge fails and the receiving record keeps its counts.
C9_NoSumOnMismatch ==
    [][(/\ pc = "for_j"
        /\ j <= Len(countsdb[cur])
        /\ key(countsdb[cur][i]) = key(countsdb[cur][j])
        /\ \E f \in IdentityFields : countsdb[cur][i][f] # countsdb[cur][j][f])
       => (/\ pc' = "abort"
           /\ err' = "assert"
           /\ countsdb'[cur][i].data = countsdb[cur][i].data
           /\ countsdb'[cur][j] = countsdb[cur][j])]_vars

\* A merge of two batches with different gene orders has failed.
C9_Witness ==
    /\ pc = "abort"
    /\ err = "assert"
    /\ countsdb[cur][i].header # countsdb[cur][j].header
    /\ key(countsdb[cur][i]) = key(countsdb[cur][j])

\* The lists of the two parents of the hybrids of countsdb[k].
Parent1Of(k) == Lookup(countsdb, <<k[1], countsdb[k][1].P1>>)

Parent2Of(k) == Lookup(countsdb, <<k[1], countsdb[k][1].P2>>)

\* C1: a hybrid list whose (tissue, parent1_code) or (tissue, parent2_code)
\* list is empty is reported as a missing parent and gets neither a matrix
\* nor a .groups file; the families whose parents are present are written.
C1_MissingParentSkipped ==
    pc = "done" =>
       \A k \in HybridKeys :
          IF Parent1Of(k) = <<>> \/ Parent2Of(k) = <<>>
          THEN /\ Outfile(k[1], k[2]) \notin DOMAIN written
               /\ Outfile(k[1], k[2]) \o DotGroups \notin DOMAIN groupsfiles
               /\ err # ""
          ELSE /\ Outfile(k[1], k[2]) \in DOMAIN written
               /\ Outfile(k[1], k[2]) \o DotGroups \in DOMAIN groupsfiles

\* An integer as two limbs, the low one in 0..65535.
Limbs(n) == <<n \div 65536, n % 65536>>

\* a + b over the integers, as limbs.
SumLimbs(a, b) ==
    <<a[1] + b[1] + ((a[2] + b[2]) \div 65536), (a[2] + b[2]) % 65536>>

SameButCounts(a, b) ==
    \A f \in IdentityFields \cup {"shortname", "working"} : a[f] = b[f]

\* C3: merging two records that differ only in counts and source paths gives,
\* at every gene, the integer a.counts[g] + b.counts[g], whichever of the two
\* receives the other.
C3_ExactSum ==
    [][(/\ pc = "for_j"
        /\ j <= Len(countsdb[cur])
        /\ key(countsdb[cur][i]) = key(countsdb[cur][j])
        /\ SameButCounts(countsdb[cur][i], countsdb[cur][j]))
       => LET a == countsdb[cur][i]
              b == countsdb[cur][j]
          IN  /\ \A g \in 1..Len(a.data) :
                    Limbs(countsdb'[cur][i].data[g]) = SumLimbs(Limbs(a.data[g]), Limbs(b.data[g]))
              /\ merge(a, b).self.data = merge(b, a).self.data]_vars

\* C5: a file that fails to parse is reported and the run goes on with the
\* other files: when the run has ended, the family of every hybrid file that
\* parses has been written (unless a merge of the valid files failed).
C5_ParseErrorsIsolated ==
    (pc \in {"done", "abort"} /\ err # "assert") =>
       /\ err \in {"name", "family", "count"} => pc = "done"
       /\ \A c \in countfiles :
             (RiceSample(c).ok /\ RiceSample(c).rs.label = "F1") =>
                Outfile(RiceSample(c).rs.tissue, RiceSample(c).rs.ind) \in DOMAIN written

\* C6: a family in which a sample's gene ids differ from those of the first
\* sample gets no matrix; any other matrix has one row per gene of the first
\* sample, holding the gene and its count in each sample in column order.
C6_ColumnMismatch ==
    pc \in {"group", "done"} =>
       \A k \in HybridKeys :
          LET ss == Parent1Of(k) \o Parent2Of(k) \o countsdb[k]
              f  == Outfile(k[1], k[2])
          IN  IF \E n \in 1..Len(ss) : ss[n].header # ss[1].header
              THEN f \notin DOMAIN written
              ELSE f \in DOMAIN written =>
                      /\ Len(written[f].rows) = Len(ss[1].header)
                      /\ \A g \in 1..Len(ss[1].header) :
                            written[f].rows[g] = <<ss[1].header[g]>> \o [n \in 1..Len(ss) |-> ss[n].data[g]]

\* The counts of a count file.
CountsOf(c) == [r \in 1..Len(c.rows) |-> c.rows[r][2].n]

RECURSIVE SumOfFiles(_, _)
\* The sum over the integers of gene g's counts in the files of paths, as limbs.
SumOfFiles(paths, g) ==
    IF paths = <<>> THEN <<0, 0>>
    ELSE SumLimbs(Limbs(CountsOf(CHOOSE c \in countfiles : c.path = Head(paths))[g]),
                  SumOfFiles(Tail(paths), g))

Occurrences(path, x) == Cardinality({n \in 1..Len(x.filename) : x.filename[n] = path})

\* C10: during the merge scan and after it every count file is in the source
\* paths of exactly one working record, exactly once; a record that is no
\* longer working has absorbed nothing; and the counts of a working record
\* are the sums of the counts of the files of its source paths.
C10_NothingLostOrDoubled ==
    pc \in {"merge", "for_i", "for_j", "group", "done"} =>
       /\ \A c \in countfiles :
             /\ Cardinality({p \in UNION {{<<k, n>> : n \in 1..Len(countsdb[k])} : k \in DOMAIN countsdb} :
                               /\ countsdb[p[1]][p[2]].working
                               /\ Occurrences(c.path, countsdb[p[1]][p[2]]) > 0}) = 1
             /\ \A x \in Records : x.working => Occurrences(c.path, x) <= 1
       /\ \A x \in Records : ~x.working => Len(x.filename) = 1
       /\ \A x \in Records :
             x.working => \A g \in 1..Len(x.data) : Limbs(x.data[g]) = SumOfFiles(x.filename, g)

====
